---------------------------- MODULE Spec2Model ----------------------------
(***************************************************************************)
(* Campay mobile-money CLI (src/main.go, lines 1-336): the orchestrator    *)
(* run(), the validators, the gateway client (InitiatePayment,             *)
(* CheckTransactionStatus) and the polling loop PollTransactionStatus.     *)
(*                                                                         *)
(* Time is abstract: the context's deadline and the interval timer of the  *)
(* wait may fire at any moment.  The context fires asynchronously to the   *)
(* polling goroutine, so its firing interleaves with every step of the     *)
(* loop, including the gap between the non-blocking select of lines        *)
(* 286-290 and the call of line 292.                                       *)
(*                                                                         *)
(* Two specifications:                                                     *)
(*   Spec        the program: main/run from loadConfig to the exit code;   *)
(*   SpecPoller  PollTransactionStatus called directly with any Config     *)
(*               and a context that its owner may cancel.                  *)
(***************************************************************************)
EXTENDS Integers, Naturals, Sequences, FiniteSets, TLC

\* ------------------------------------------------------------------ bounds
\* largest Config.MaxPollAttempts tried by a direct caller of the poller
MaxN == 3
\* the gateway answers PENDING to the first gwK checks, gwK in 0..MaxK
MaxK == 4
\* longest time, in seconds, a status check is in flight in the timed
\* specification (the client allows requestTimeout per try)
MaxLatency == 4
\* a phone string handed to the validator is a head of at most MaxHead
\* bytes followed by at most MaxPad copies of one character
MaxHead == 3
MaxPad == 9

\* --------------------------------------------------------- program constants
maxPollAttempts == 40
\* pollInterval and requestTimeout, in seconds
pollInterval == 3
requestTimeout == 10
minPhoneLength == 9
minAmount == 0
maxDescriptionLength == 200

\* ------------------------------------------------------------------- errors
\* A Go error is its chain of %w layers, outermost first; nil is the empty
\* chain.  Each layer keeps the message, and the status code and text that
\* the format verbs put into it.
Nil == << >>

Layer(msg, code, text) == [msg |-> msg, code |-> code, text |-> text]

NewError(msg) == << Layer(msg, 0, "") >>

Wrap(msg, err) == << Layer(msg, 0, "") >> \o err

\* ctx.Err(): nil while the context is live, then the cause that fired first
CtxErr(c) ==
    CASE c = "DeadlineExceeded" -> NewError("context deadline exceeded")
      [] c = "Canceled"         -> NewError("context canceled")
      [] OTHER                  -> Nil

VARIABLES
    pc,          \* position of the single goroutine in run / PollTransactionStatus
    env,         \* process environment: API_KEY and the .env file
    stdin,       \* the three lines on standard input, as ReadString returns them
    config,      \* *Config built by loadConfig
    paymentReq,  \* *PaymentRequest built by getUserInput
    reference,   \* reference returned by InitiatePayment
    ctx,         \* the poll context: "none", "active", "DeadlineExceeded", "Canceled"
    attempts,    \* local attempts of PollTransactionStatus
    resp,        \* the HTTP response the last CheckTransactionStatus call got
    status,      \* local status, err of the last CheckTransactionStatus call
    err,
    pollStatus,  \* the pair returned by PollTransactionStatus
    pollErr,
    runErr,      \* error returned by run
    exitCode,    \* -1 while running, then the process exit code
    stdout,      \* what the run printed that matters: progress lines, final status
    gwK,         \* gateway: number of leading checks answered PENDING
    gwFinal,     \* gateway: status answered after them
    gwDeviated,  \* history: some answer was not the scripted 2xx one
    initCalls,   \* history: InitiatePayment calls
    checkCalls,  \* history: CheckTransactionStatus calls started
    lateCalls,   \* history: of those, started with the context already done
    waits,       \* history: inter-attempt waits entered
    intervals,   \* history: waits ended by the interval timer
    fired,       \* history: pc, attempts, calls and intervals when the context fired
    postResp,    \* the HTTP response the InitiatePayment call got
    nonTerminal, \* history: checks that returned a status other than the two terminal ones
    clock,       \* seconds since the context was created
    callStart,   \* clock when the check in flight started
    timerAt      \* clock at which the time.After of the current wait fires

vars == << pc, env, stdin, config, paymentReq, reference, ctx, attempts,
           resp, status, err, pollStatus, pollErr, runErr, exitCode, stdout,
           gwK, gwFinal, gwDeviated, initCalls, checkCalls, lateCalls,
           waits, intervals, fired, postResp, nonTerminal, clock, callStart,
           timerAt >>

runVars == << env, stdin, config, paymentReq, reference, runErr, exitCode,
              initCalls >>

gwVars == << gwK, gwFinal >>

\* --------------------------------------------------------------- validators
\* the least number of a non-empty set of numbers
Least(S) == CHOOSE j \in S : \A k \in S : j <= k

\* strings.ReplaceAll(s, c, "") for a one-character c
ReplaceAll(s, c) == SelectSeq(s, LAMBDA x : x # c)

HasPrefix(s, p) == Len(s) >= Len(p) /\ SubSeq(s, 1, Len(p)) = p

\* A Go string is a sequence of bytes. A printable ASCII byte is written as
\* itself, a one-character string; every other byte is written as its two
\* hexadecimal digits ("0A" is the line feed, "C3" "A9" the UTF-8 encoding of
\* the letter e with an acute accent).
\* the characters of unicode.IsSpace, in UTF-8: tab, line feed, vertical
\* tab, form feed, carriage return, space, U+0085, U+00A0, U+1680,
\* U+2000..U+200A, U+2028, U+2029, U+202F, U+205F, U+3000
WhiteSpace ==
    { <<"09">>, <<"0A">>, <<"0B">>, <<"0C">>, <<"0D">>, <<" ">>,
      <<"C2", "85">>, <<"C2", "A0">>, <<"E1", "9A", "80">>,
      <<"E2", "80", "A8">>, <<"E2", "80", "A9">>, <<"E2", "80", "AF">>,
      <<"E2", "81", "9F">>, <<"E3", "80", "80">> } \cup
    { <<"E2", "80", b>> : b \in { "80", "81", "82", "83", "84", "85", "86",
                                  "87", "88", "89", "8A" } }

\* byte j of s belongs to a white space character
InWhiteSpace(s, j) ==
    \E w \in WhiteSpace : \E o \in 0..(Len(w) - 1) :
        /\ w[o + 1] = s[j]
        /\ j - o >= 1
        /\ j - o + Len(w) - 1 <= Len(s)
        /\ SubSeq(s, j - o, j - o + Len(w) - 1) = w

\* the bytes of s that belong to no white space character
BlackBytes(s) == { j \in 1..Len(s) : ~InWhiteSpace(s, j) }

\* strings.TrimSpace: leading and trailing white space removed
TrimLeftTo(s, black) ==
    IF black = {} THEN << >> ELSE SubSeq(s, Least(black), Len(s))

TrimLeft(s) == TrimLeftTo(s, BlackBytes(s))

TrimRightTo(s, black) ==
    IF black = {} THEN << >> ELSE SubSeq(s, 1, -Least({ -j : j \in black }))

TrimRight(s) == TrimRightTo(s, BlackBytes(s))

TrimSpace(s) == TrimRight(TrimLeft(s))

validatePhoneNumber(phone) ==
    IF phone = << >> THEN NewError("phone number cannot be empty")
    ELSE LET p == ReplaceAll(ReplaceAll(ReplaceAll(phone, " "), "-"), "+")
         IN  IF Len(p) < minPhoneLength
             THEN NewError("phone number too short")
             ELSE IF ~HasPrefix(p, <<"2", "3", "7">>) /\ ~HasPrefix(p, <<"6">>)
                  THEN NewError("invalid phone number format")
                  ELSE Nil

\* ------------------------------------------------------ strconv.ParseFloat
\* A float64 is written by what the validator can tell of it: its class
\* (NaN, infinite, zero, or a finite non-zero number) and its sign; a finite
\* number also keeps the digits read (base 10, or 16 after 0x) and the
\* exponent: the value is the digits, read as an integer, times 10^exp
\* (times 2^exp for base 16).
Float(class, neg, base, mant, exp) ==
    [class |-> class, neg |-> neg, base |-> base, mant |-> mant, exp |-> exp]

NaN == Float("NaN", FALSE, 10, << >>, 0)

Inf(neg) == Float("Inf", neg, 10, << >>, 0)

Zero(neg) == Float("zero", neg, 10, << >>, 0)

\* val <= m for the float64 val and the bound m = 0.0 of minAmount: false for
\* NaN, true for either zero and for everything negative
FloatLeq(val, m) ==
    /\ val.class # "NaN"
    /\ IF val.class = "zero" THEN 0 <= m ELSE (val.neg /\ 0 <= m)

Lower(c) ==
    CASE c = "A" -> "a" []
      c = "B" -> "b" []
      c = "C" -> "c" []
      c = "D" -> "d" []
      c = "E" -> "e" []
      c = "F" -> "f" []
      c = "G" -> "g" []
      c = "H" -> "h" []
      c = "I" -> "i" []
      c = "J" -> "j" []
      c = "K" -> "k" []
      c = "L" -> "l" []
      c = "M" -> "m" []
      c = "N" -> "n" []
      c = "O" -> "o" []
      c = "P" -> "p" []
      c = "Q" -> "q" []
      c = "R" -> "r" []
      c = "S" -> "s" []
      c = "T" -> "t" []
      c = "U" -> "u" []
      c = "V" -> "v" []
      c = "W" -> "w" []
      c = "X" -> "x" []
      c = "Y" -> "y" []
      c = "Z" -> "z" []
      OTHER -> c

DecDigits == { "0", "1", "2", "3", "4", "5", "6", "7", "8", "9" }

HexLetters == { "a", "b", "c", "d", "e", "f" }

DigitVal(c) ==
    CASE c = "0" -> 0 []
      c = "1" -> 1 []
      c = "2" -> 2 []
      c = "3" -> 3 []
      c = "4" -> 4 []
      c = "5" -> 5 []
      c = "6" -> 6 []
      c = "7" -> 7 []
      c = "8" -> 8 []
      c = "9" -> 9 []
      c = "a" -> 10 []
      c = "b" -> 11 []
      c = "c" -> 12 []
      c = "d" -> 13 []
      c = "e" -> 14 []
      c = "f" -> 15

\* commonPrefixLenIgnoreCase(s, prefix), prefix in lower case
CommonPrefixLenIgnoreCase(s, prefix) ==
    LET m == IF Len(s) < Len(prefix) THEN Len(s) ELSE Len(prefix)
        agree == { n \in 0..m : \A i \in 1..n : Lower(s[i]) = prefix[i] }
    IN  CHOOSE n \in agree : \A k \in agree : k <= n

\* special: "nan", and "inf" or "infinity" with an optional sign, in any
\* case; n is the number of bytes taken
NotSpecial == [ok |-> FALSE, val |-> Zero(FALSE), n |-> 0]

\* c bytes agree with "infinity"; more than "inf" but less than the whole
\* word counts as "inf"
SpecialInf(neg, nsign, c) ==
    IF c = 8 THEN [ok |-> TRUE, val |-> Inf(neg), n |-> nsign + 8]
    ELSE IF c >= 3 THEN [ok |-> TRUE, val |-> Inf(neg), n |-> nsign + 3]
    ELSE NotSpecial

special(s) ==
    IF s = << >> THEN NotSpecial
    ELSE IF s[1] \in {"+", "-"}
         THEN SpecialInf(s[1] = "-", 1,
                  CommonPrefixLenIgnoreCase(Tail(s),
                      <<"i", "n", "f", "i", "n", "i", "t", "y">>))
    ELSE IF s[1] \in {"i", "I"}
         THEN SpecialInf(FALSE, 0,
                  CommonPrefixLenIgnoreCase(s,
                      <<"i", "n", "f", "i", "n", "i", "t", "y">>))
    ELSE IF /\ s[1] \in {"n", "N"}
            /\ CommonPrefixLenIgnoreCase(s, <<"n", "a", "n">>) = 3
         THEN [ok |-> TRUE, val |-> NaN, n |-> 3]
         ELSE NotSpecial

IsDecDigit(c) == c \in DecDigits

IsHexDigit(c) == c \in DecDigits \/ Lower(c) \in HexLetters

\* the loop of readFloat over the digits of the mantissa, from byte i on,
\* ends at the first byte that is no digit, underscore or point, or at a
\* second point
MantissaStops(s, hex, i) ==
    { j \in i..Len(s) : ~( \/ s[j] \in {"_", "."}
                           \/ IsDecDigit(s[j])
                           \/ (hex /\ IsHexDigit(s[j])) ) }

MantissaPoints(s, i, stop) == { j \in i..(stop - 1) : s[j] = "." }

MantissaEndAt(stop, points) ==
    IF Cardinality(points) >= 2 THEN Least(points \ {Least(points)}) ELSE stop

MantissaEndFrom(s, i, stop) == MantissaEndAt(stop, MantissaPoints(s, i, stop))

MantissaStop(s, stops) == IF stops = {} THEN Len(s) + 1 ELSE Least(stops)

MantissaEnd(s, hex, i) ==
    MantissaEndFrom(s, i, MantissaStop(s, MantissaStops(s, hex, i)))

\* what the loop has seen between byte i and byte end: P the digits, first
\* the first digit that is not a leading zero (end if there is none), point
\* the point (0 if there is none). A leading zero is not counted in nd; one
\* that comes after the point moves dp back by one.
MantissaSeen(s, i, end, P, first, point, taken) ==
    [i |-> end,
     nd |-> Len(taken),
     dp |-> Cardinality({ j \in P : first <= j /\ j < point })
               - Cardinality({ j \in P : point < j /\ j < first }),
     sawdot |-> point # 0,
     sawdigits |-> P # {},
     digits |-> [k \in 1..Len(taken) |-> DigitVal(Lower(taken[k]))],
     underscores |-> \E j \in i..(end - 1) : s[j] = "_"]

MantissaDigits(s, i, end, P, first, points) ==
    MantissaSeen(s, i, end, P, first,
        IF points = {} THEN 0 ELSE Least(points),
        SelectSeq(SubSeq(s, first, end - 1), IsHexDigit))

MantissaFirst(s, i, end, P, significant) ==
    MantissaDigits(s, i, end, P,
        IF significant = {} THEN end ELSE Least(significant),
        MantissaPoints(s, i, end))

MantissaOver(s, i, end, P) ==
    MantissaFirst(s, i, end, P, { j \in P : s[j] # "0" })

MantissaTo(s, i, end) ==
    MantissaOver(s, i, end, { j \in i..(end - 1) : IsHexDigit(s[j]) })

ScanMantissa(s, hex, i) == MantissaTo(s, i, MantissaEnd(s, hex, i))

\* the value of at most five decimal digits
RECURSIVE DecValue(_)
DecValue(q) ==
    IF q = << >> THEN 0
    ELSE 10 * DecValue(SubSeq(q, 1, Len(q) - 1)) + DigitVal(q[Len(q)])

\* the loop of readFloat over the digits of the exponent, from byte i on: e
\* takes digits as long as it is below 10000, which is up to the fifth digit
\* after the leading zeros
ExponentValue(q, significant) ==
    IF significant = {} THEN 0
    ELSE DecValue(SubSeq(q, Least(significant),
                         IF Least(significant) + 4 < Len(q)
                         THEN Least(significant) + 4 ELSE Len(q)))

ExponentOf(q) == ExponentValue(q, { k \in 1..Len(q) : q[k] # "0" })

ExponentTo(s, st, end) ==
    [i |-> end,
     e |-> ExponentOf(SelectSeq(SubSeq(s, st.i, end - 1), IsDecDigit)),
     underscores |-> st.underscores \/ \E j \in st.i..(end - 1) : s[j] = "_"]

ExponentStop(s, stops) == IF stops = {} THEN Len(s) + 1 ELSE Least(stops)

ScanExponent(s, st) ==
    ExponentTo(s, st,
        ExponentStop(s, { j \in st.i..Len(s) : s[j] \notin (DecDigits \cup {"_"}) }))

\* underscoreOK: an underscore stands between two digits, or between the
\* base prefix and a digit
UnderscoreScan(t, start, prefixed, hex) ==
    \A j \in start..Len(t) :
        t[j] = "_" =>
            /\ \/ j = start /\ prefixed
               \/ j > start /\ (IsDecDigit(t[j - 1]) \/ (hex /\ IsHexDigit(t[j - 1])))
            /\ j < Len(t)
            /\ IsDecDigit(t[j + 1]) \/ (hex /\ IsHexDigit(t[j + 1]))

UnderscorePrefix(t, prefixed) ==
    UnderscoreScan(t, IF prefixed THEN 3 ELSE 1, prefixed,
                   prefixed /\ Lower(t[2]) = "x")

UnderscoreUnsigned(t) ==
    UnderscorePrefix(t, Len(t) >= 2 /\ t[1] = "0" /\ Lower(t[2]) \in {"b", "o", "x"})

underscoreOK(s) ==
    UnderscoreUnsigned(IF s # << >> /\ s[1] \in {"+", "-"} THEN Tail(s) ELSE s)

\* readFloat: sign, digits with at most one point, exponent (e for base 10,
\* p, which is required, for base 16); n is the number of bytes taken, exp
\* the exponent that goes with the digits read as an integer
FloatFail ==
    [ok |-> FALSE, neg |-> FALSE, hex |-> FALSE, digits |-> << >>, exp |-> 0, n |-> 0]

\* the end of readFloat: dp is the position of the point, last the first
\* byte not taken
ReadDone(s, hex, digits, dp, ndMant, last, underscores) ==
    IF underscores /\ ~underscoreOK(SubSeq(s, 1, last - 1)) THEN FloatFail
    ELSE [ok |-> TRUE, neg |-> s[1] = "-", hex |-> hex, digits |-> digits,
          exp |-> IF Len(digits) = 0 THEN 0 ELSE dp - ndMant,
          n |-> last - 1]

\* the digits of the exponent, from byte digitAt on
ReadExponentDigits(s, hex, m, dp, ndMant, esign, digitAt, x) ==
    IF digitAt > Len(s) \/ s[digitAt] \notin DecDigits THEN FloatFail
    ELSE ReadDone(s, hex, m.digits, dp + x.e * esign, ndMant, x.i, x.underscores)

\* the sign of the exponent, at byte signAt if there is one
ReadExponentSign(s, hex, m, dp, ndMant, signAt, signed) ==
    ReadExponentDigits(s, hex, m, dp, ndMant,
        IF signed /\ s[signAt] = "-" THEN -1 ELSE 1,
        IF signed THEN signAt + 1 ELSE signAt,
        ScanExponent(s, [i |-> IF signed THEN signAt + 1 ELSE signAt, e |-> 0,
                         underscores |-> m.underscores]))

\* after the mantissa m: the optional exponent
ReadExponent(s, hex, m, dp, ndMant) ==
    IF ~m.sawdigits THEN FloatFail
    ELSE IF m.i <= Len(s) /\ Lower(s[m.i]) = (IF hex THEN "p" ELSE "e")
         THEN ReadExponentSign(s, hex, m, dp, ndMant, m.i + 1,
                               m.i + 1 <= Len(s) /\ s[m.i + 1] \in {"+", "-"})
         ELSE IF hex THEN FloatFail
              ELSE ReadDone(s, hex, m.digits, dp, ndMant, m.i, m.underscores)

ReadPoint(s, hex, m, scale) ==
    ReadExponent(s, hex, m, scale * (IF m.sawdot THEN m.dp ELSE m.nd), scale * m.nd)

\* the mantissa, from byte i0 on, after the base prefix if there is one
ReadMantissa(s, hex, i0) ==
    ReadPoint(s, hex,
        ScanMantissa(s, hex, IF hex THEN i0 + 2 ELSE i0),
        IF hex THEN 4 ELSE 1)

ReadBase(s, i0) ==
    ReadMantissa(s, i0 + 2 <= Len(s) /\ s[i0] = "0" /\ Lower(s[i0 + 1]) = "x", i0)

readFloat(s) ==
    IF s = << >> THEN FloatFail
    ELSE ReadBase(s, IF s[1] \in {"+", "-"} THEN 2 ELSE 1)

\* the 309 digits of 2^1024 - 2^970 = 0.1797...e309, half way between the
\* largest float64 and 2^1024: from this value on a decimal rounds to
\* infinity
MaxFloatDigits ==
    << 1, 7, 9, 7, 6, 9, 3, 1, 3, 4, 8, 6, 2, 3, 1, 5, 8, 0, 7, 9, 3, 7, 2, 8, 9,
       7, 1, 4, 0, 5, 3, 0, 3, 4, 1, 5, 0, 7, 9, 9, 3, 4, 1, 3, 2, 7, 1, 0, 0, 3,
       7, 8, 2, 6, 9, 3, 6, 1, 7, 3, 7, 7, 8, 9, 8, 0, 4, 4, 4, 9, 6, 8, 2, 9, 2,
       7, 6, 4, 7, 5, 0, 9, 4, 6, 6, 4, 9, 0, 1, 7, 9, 7, 7, 5, 8, 7, 2, 0, 7, 0,
       9, 6, 3, 3, 0, 2, 8, 6, 4, 1, 6, 6, 9, 2, 8, 8, 7, 9, 1, 0, 9, 4, 6, 5, 5,
       5, 5, 4, 7, 8, 5, 1, 9, 4, 0, 4, 0, 2, 6, 3, 0, 6, 5, 7, 4, 8, 8, 6, 7, 1,
       5, 0, 5, 8, 2, 0, 6, 8, 1, 9, 0, 8, 9, 0, 2, 0, 0, 0, 7, 0, 8, 3, 8, 3, 6,
       7, 6, 2, 7, 3, 8, 5, 4, 8, 4, 5, 8, 1, 7, 7, 1, 1, 5, 3, 1, 7, 6, 4, 4, 7,
       5, 7, 3, 0, 2, 7, 0, 0, 6, 9, 8, 5, 5, 5, 7, 1, 3, 6, 6, 9, 5, 9, 6, 2, 2,
       8, 4, 2, 9, 1, 4, 8, 1, 9, 8, 6, 0, 8, 3, 4, 9, 3, 6, 4, 7, 5, 2, 9, 2, 7,
       1, 9, 0, 7, 4, 1, 6, 8, 4, 4, 4, 3, 6, 5, 5, 1, 0, 7, 0, 4, 3, 4, 2, 7, 1,
       1, 5, 5, 9, 6, 9, 9, 5, 0, 8, 0, 9, 3, 0, 4, 2, 8, 8, 0, 1, 7, 7, 9, 0, 4,
       1, 7, 4, 4, 9, 7, 7, 9, 2 >>

\* the 752 digits of 2^-1075 = 0.2470...e-323, half of the smallest float64:
\* up to this value a decimal rounds to zero
HalfMinFloatDigits ==
    << 2, 4, 7, 0, 3, 2, 8, 2, 2, 9, 2, 0, 6, 2, 3, 2, 7, 2, 0, 8, 8, 2, 8, 4, 3,
       9, 6, 4, 3, 4, 1, 1, 0, 6, 8, 6, 1, 8, 2, 5, 2, 9, 9, 0, 1, 3, 0, 7, 1, 6,
       2, 3, 8, 2, 2, 1, 2, 7, 9, 2, 8, 4, 1, 2, 5, 0, 3, 3, 7, 7, 5, 3, 6, 3, 5,
       1, 0, 4, 3, 7, 5, 9, 3, 2, 6, 4, 9, 9, 1, 8, 1, 8, 0, 8, 1, 7, 9, 9, 6, 1,
       8, 9, 8, 9, 8, 2, 8, 2, 3, 4, 7, 7, 2, 2, 8, 5, 8, 8, 6, 5, 4, 6, 3, 3, 2,
       8, 3, 5, 5, 1, 7, 7, 9, 6, 9, 8, 9, 8, 1, 9, 9, 3, 8, 7, 3, 9, 8, 0, 0, 5,
       3, 9, 0, 9, 3, 9, 0, 6, 3, 1, 5, 0, 3, 5, 6, 5, 9, 5, 1, 5, 5, 7, 0, 2, 2,
       6, 3, 9, 2, 2, 9, 0, 8, 5, 8, 3, 9, 2, 4, 4, 9, 1, 0, 5, 1, 8, 4, 4, 3, 5,
       9, 3, 1, 8, 0, 2, 8, 4, 9, 9, 3, 6, 5, 3, 6, 1, 5, 2, 5, 0, 0, 3, 1, 9, 3,
       7, 0, 4, 5, 7, 6, 7, 8, 2, 4, 9, 2, 1, 9, 3, 6, 5, 6, 2, 3, 6, 6, 9, 8, 6,
       3, 6, 5, 8, 4, 8, 0, 7, 5, 7, 0, 0, 1, 5, 8, 5, 7, 6, 9, 2, 6, 9, 9, 0, 3,
       7, 0, 6, 3, 1, 1, 9, 2, 8, 2, 7, 9, 5, 5, 8, 5, 5, 1, 3, 3, 2, 9, 2, 7, 8,
       3, 4, 3, 3, 8, 4, 0, 9, 3, 5, 1, 9, 7, 8, 0, 1, 5, 5, 3, 1, 2, 4, 6, 5, 9,
       7, 2, 6, 3, 5, 7, 9, 5, 7, 4, 6, 2, 2, 7, 6, 6, 4, 6, 5, 2, 7, 2, 8, 2, 7,
       2, 2, 0, 0, 5, 6, 3, 7, 4, 0, 0, 6, 4, 8, 5, 4, 9, 9, 9, 7, 7, 0, 9, 6, 5,
       9, 9, 4, 7, 0, 4, 5, 4, 0, 2, 0, 8, 2, 8, 1, 6, 6, 2, 2, 6, 2, 3, 7, 8, 5,
       7, 3, 9, 3, 4, 5, 0, 7, 3, 6, 3, 3, 9, 0, 0, 7, 9, 6, 7, 7, 6, 1, 9, 3, 0,
       5, 7, 7, 5, 0, 6, 7, 4, 0, 1, 7, 6, 3, 2, 4, 6, 7, 3, 6, 0, 0, 9, 6, 8, 9,
       5, 1, 3, 4, 0, 5, 3, 5, 5, 3, 7, 4, 5, 8, 5, 1, 6, 6, 6, 1, 1, 3, 4, 2, 2,
       3, 7, 6, 6, 6, 7, 8, 6, 0, 4, 1, 6, 2, 1, 5, 9, 6, 8, 0, 4, 6, 1, 9, 1, 4,
       4, 6, 7, 2, 9, 1, 8, 4, 0, 3, 0, 0, 5, 3, 0, 0, 5, 7, 5, 3, 0, 8, 4, 9, 0,
       4, 8, 7, 6, 5, 3, 9, 1, 7, 1, 1, 3, 8, 6, 5, 9, 1, 6, 4, 6, 2, 3, 9, 5, 2,
       4, 9, 1, 2, 6, 2, 3, 6, 5, 3, 8, 8, 1, 8, 7, 9, 6, 3, 6, 2, 3, 9, 3, 7, 3,
       2, 8, 0, 4, 2, 3, 8, 9, 1, 0, 1, 8, 6, 7, 2, 3, 4, 8, 4, 9, 7, 6, 6, 8, 2,
       3, 5, 0, 8, 9, 8, 6, 3, 3, 8, 8, 5, 8, 7, 9, 2, 5, 6, 2, 8, 3, 0, 2, 7, 5,
       5, 9, 9, 5, 6, 5, 7, 5, 2, 4, 4, 5, 5, 5, 0, 7, 2, 5, 5, 1, 8, 9, 3, 1, 3,
       6, 9, 0, 8, 3, 6, 2, 5, 4, 7, 7, 9, 1, 8, 6, 9, 4, 8, 6, 6, 7, 9, 9, 4, 9,
       6, 8, 3, 2, 4, 0, 4, 9, 7, 0, 5, 8, 2, 1, 0, 2, 8, 5, 1, 3, 1, 8, 5, 4, 5,
       1, 3, 9, 6, 2, 1, 3, 8, 3, 7, 7, 2, 2, 8, 2, 6, 1, 4, 5, 4, 3, 7, 6, 9, 3,
       4, 1, 2, 5, 3, 2, 0, 9, 8, 5, 9, 1, 3, 2, 7, 6, 6, 7, 2, 3, 6, 3, 2, 8, 1,
       2, 5 >>

\* 0.d1d2d3... against 0.t1t2t3...: -1 when it is below, 0 when the two are
\* equal, 1 when it is above
DigitsCompare(d, t) ==
    LET n == IF Len(d) > Len(t) THEN Len(d) ELSE Len(t)
        at(x, i) == IF i <= Len(x) THEN x[i] ELSE 0
        differ == { i \in 1..n : at(d, i) # at(t, i) }
        first == CHOOSE i \in differ : \A k \in differ : i <= k
    IN  IF differ = {} THEN 0
        ELSE IF at(d, first) < at(t, first) THEN -1 ELSE 1

\* the bits of a sequence of hexadecimal digits that starts with a non-zero
\* digit, from the first 1 on
AllBits(h) ==
    [i \in 1..(4 * Len(h)) |->
        (h[((i - 1) \div 4) + 1] \div (2 ^ (3 - ((i - 1) % 4)))) % 2]

StripZeros(b) == SubSeq(b, Least({ i \in 1..4 : b[i] = 1 }), Len(b))

Bits(h) == StripZeros(AllBits(h))

\* the value read is too large for a float64: it rounds to infinity
Overflows(r) ==
    IF Len(r.digits) = 0 THEN FALSE
    ELSE IF r.hex
         THEN LET b == Bits(r.digits)
                  k == Len(b) + r.exp
              IN  \/ k > 1024
                  \/ k = 1024 /\ Len(b) >= 54 /\ \A i \in 1..54 : b[i] = 1
         ELSE LET dp == r.exp + Len(r.digits)
              IN  \/ dp > 309
                  \/ dp = 309 /\ DigitsCompare(r.digits, MaxFloatDigits) >= 0

\* the value read is too small for a float64: it rounds to zero
Underflows(r) ==
    IF Len(r.digits) = 0 THEN TRUE
    ELSE IF r.hex
         THEN LET b == Bits(r.digits)
                  k == Len(b) + r.exp
              IN  \/ k < -1074
                  \/ k = -1074 /\ \A i \in 2..Len(b) : b[i] = 0
         ELSE LET dp == r.exp + Len(r.digits)
              IN  \/ dp < -323
                  \/ dp = -323 /\ DigitsCompare(r.digits, HalfMinFloatDigits) <= 0

SyntaxError == [val |-> Zero(FALSE), err |-> NewError("invalid syntax")]

\* atof64 on what readFloat read: a number too large is the error ErrRange,
\* a number too small is zero
Atof(amount, r) ==
    IF ~r.ok \/ r.n # Len(amount) THEN SyntaxError
    ELSE IF Overflows(r)
         THEN [val |-> Inf(r.neg), err |-> NewError("value out of range")]
    ELSE IF Underflows(r) THEN [val |-> Zero(r.neg), err |-> Nil]
    ELSE [val |-> Float("finite", r.neg, IF r.hex THEN 16 ELSE 10, r.digits, r.exp),
          err |-> Nil]

AtofSpecial(amount, sp) ==
    IF sp.ok
    THEN IF sp.n = Len(amount) THEN [val |-> sp.val, err |-> Nil] ELSE SyntaxError
    ELSE Atof(amount, readFloat(amount))

\* strconv.ParseFloat(amount, 64): the whole string must be a number
ParseFloat(amount) == AtofSpecial(amount, special(amount))

AmountChecked(r) ==
    IF r.err # Nil THEN NewError("invalid amount format: must be a number")
    ELSE IF FloatLeq(r.val, minAmount)
         THEN NewError("amount must be greater than 0.00")
         ELSE Nil

validateAmount(amount) ==
    IF amount = << >> THEN NewError("amount cannot be empty")
    ELSE AmountChecked(ParseFloat(amount))

validateDescription(description) ==
    IF description = << >> THEN NewError("description cannot be empty")
    ELSE IF Len(description) > maxDescriptionLength
         THEN NewError("description too long")
         ELSE Nil

validatePaymentRequest(req) ==
    IF validatePhoneNumber(req.From) # Nil THEN validatePhoneNumber(req.From)
    ELSE IF validateAmount(req.Amount) # Nil THEN validateAmount(req.Amount)
         ELSE validateDescription(req.Description)

\* ------------------------------------------------------------------- inputs
PhoneAlphabet == { "6", "2", "3", "7", "1", " ", "-", "+" }

PadUnits == { <<"1">>, <<"-">>, <<"C3", "A9">> }

\* n copies of the bytes u, one after the other
Repeat(u, n) == [i \in 1..(n * Len(u)) |-> u[((i - 1) % Len(u)) + 1]]

\* the phone strings the validator is applied to on its own
PhoneInputs ==
    { h \o Repeat(u, n) :
        h \in UNION { [1..k -> PhoneAlphabet] : k \in 0..MaxHead },
        u \in PadUnits,
        n \in 0..MaxPad }

\* bufio.Reader.ReadString('\n'), lines 162, 169, 176: the bytes up to and
\* with the line feed, or, when the input ends first, what is left of it and
\* the error io.EOF
ReadString(line) ==
    [s |-> line,
     err |-> IF line # << >> /\ line[Len(line)] = "0A" THEN Nil ELSE NewError("EOF")]

\* a line as typed and entered
Entered(text) == text \o <<"0A">>

Valid_From == Entered(<<"6", "7", "7", "1", "2", "3", "4", "5", "6">>)

Valid_Amount == Entered(<<"5", "0", "0">>)

Valid_Description == Entered(<<"P", "a", "y", "m", "e", "n", "t">>)

PhoneSamples ==
    { <<"0A">>,
      << >>,
      Entered(<<"6", "7", "7", "1", "2">>),
      Valid_From,
      Entered(<<" ", "+", "2", "3", "7", " ", "6", "7", "7", "-", "1", "2", "3",
                "-", "4", "5", "6", "0D">>),
      <<"09", "C2", "A0">> \o Valid_From,
      Entered(<<"6", "7", "7", "09", "1", "2", "3", "4", "5", "6">>),
      Entered(<<"1", "2", "3", "4", "5", "6", "7", "8", "9">>) }

AmountSamples ==
    { <<"0A">>,
      <<"5", "0", "0">>,
      Valid_Amount,
      Entered(<<" ", "5", "0", "0", " ", "0D">>),
      Entered(<<"1", ".", "5">>),
      Entered(<<"N", "a", "N">>),
      Entered(<<"a", "b", "c">>),
      Entered(<<"0">>),
      Entered(<<"-", "5">>),
      Entered(<<"5", " ", "0">>),
      Entered(<<"-", "0", ".", "0">>),
      Entered(<<"-", "I", "n", "f">>),
      Entered(<<"i", "n", "f", "i">>),
      Entered(<<"+", "n", "a", "n">>),
      Entered(<<"1", "e", "4", "0", "0">>),
      Entered(<<"1", "e", "-", "4", "0", "0">>),
      Entered(<<"0", "x", "1", "0">>),
      Entered(<<"_", "1">>),
      Entered(<<"1", "e">>),
      Entered(<<".">>) }

\* descriptions of 200 and of 201 bytes, and one of 200 bytes followed by a
\* blank
DescriptionSamples ==
    { <<"0A">>,
      <<"x">>,
      Valid_Description,
      Entered(<<" ", "09">>),
      Entered(Repeat(<<"x">>, maxDescriptionLength)),
      Entered(Repeat(<<"x">>, maxDescriptionLength) \o <<" ">>),
      Entered(Repeat(<<"x">>, maxDescriptionLength + 1)) }

\* the three lines on standard input, each as ReadString returns it; one
\* line is varied at a time
StdinSamples ==
    [From : PhoneSamples, Amount : {Valid_Amount}, Description : {Valid_Description}]
    \cup
    [From : {Valid_From}, Amount : AmountSamples, Description : {Valid_Description}]
    \cup
    [From : {Valid_From}, Amount : {Valid_Amount}, Description : DescriptionSamples]

\* the input ended before the first line
NoInput == [From |-> << >>, Amount |-> << >>, Description |-> << >>]

EnvSamples == [API_KEY : {"", "key"}, dotenv : {"absent", "ok", "bad"}]

NoConfig == [APIKey |-> "", MaxPollAttempts |-> 0]

NoRequest == [From |-> << >>, Amount |-> << >>, Description |-> << >>]

\* --------------------------------------------------------------- the gateway
StatusCodes == { 199, 200, 299, 300, 400 }

StatusValues == { "PENDING", "SUCCESSFUL", "FAILED", "", "UNKNOWN" }

\* the raw body {"message":"invalid credentials"} of an error response
MessageBody == "{message:invalid credentials}"

\* the status the gateway's script gives to the i-th check
Scripted(i) == IF i <= gwK THEN "PENDING" ELSE gwFinal

ScriptedResponse(i) ==
    [neterr |-> FALSE, code |-> 200, status |-> Scripted(i), body |-> "{}"]

\* every answer a check can get: transport failure (after the client's own
\* retries), or any status code with any status field
StatusResponses ==
    { [neterr |-> TRUE, code |-> 0, status |-> "", body |-> ""] } \cup
    [neterr : {FALSE}, code : StatusCodes, status : StatusValues, body : {"{}"}] \cup
    [neterr : {FALSE}, code : {c \in StatusCodes : c < 200 \/ c > 299},
     status : {""}, body : {MessageBody}]

NoResponse == [neterr |-> FALSE, code |-> 0, status |-> "", body |-> ""]

NoInitResponse == [neterr |-> FALSE, code |-> 0, Reference |-> "", Message |-> ""]

\* every answer the POST can get: transport failure, or any status code
\* with a body that has a reference, a message, or neither
InitResponses ==
    { [neterr |-> TRUE, code |-> 0, Reference |-> "", Message |-> ""] } \cup
    [neterr : {FALSE}, code : StatusCodes, Reference : {"", "abc123"},
     Message : {""}] \cup
    [neterr : {FALSE}, code : StatusCodes, Reference : {""},
     Message : {"invalid credentials"}]

\* ----------------------------------------------------------- gateway client
\* SetResult(&initResp): the client decodes the body into the result object
\* only when the status code is 200-299; otherwise it stays the zero value
InitResult(r) ==
    IF ~r.neterr /\ r.code >= 200 /\ r.code <= 299
    THEN [Reference |-> r.Reference, Message |-> r.Message]
    ELSE [Reference |-> "", Message |-> ""]

\* InitiatePayment without the check of lines 274-276
InitiatePayment_NoReferenceCheck(r) ==
    LET initResp == InitResult(r)
    IN  IF r.neterr
        THEN [reference |-> "",
              err |-> Wrap("request failed", NewError("transport error"))]
        ELSE IF r.code < 200 \/ r.code >= 300
             THEN [reference |-> "",
                   err |-> << Layer("API error", r.code, initResp.Message) >>]
             ELSE [reference |-> initResp.Reference, err |-> Nil]

\* the pair (reference, error) InitiatePayment returns on the response r
InitiatePayment(r) ==
    LET initResp == InitResult(r)
    IN  IF r.neterr
        THEN [reference |-> "",
              err |-> Wrap("request failed", NewError("transport error"))]
        ELSE IF r.code < 200 \/ r.code >= 300
             THEN [reference |-> "",
                   err |-> << Layer("API error", r.code, initResp.Message) >>]
             ELSE IF initResp.Reference = ""
                  THEN [reference |-> "",
                        err |-> << Layer("no reference returned", 0,
                                         initResp.Message) >>]
                  ELSE [reference |-> initResp.Reference, err |-> Nil]

\* the pair (status, error) CheckTransactionStatus returns on the response r
CheckTransactionStatus(r) ==
    IF r.neterr
    THEN [status |-> "",
          err |-> Wrap("request failed", NewError("transport error"))]
    ELSE IF r.code < 200 \/ r.code >= 300
         THEN [status |-> "",
               err |-> << Layer("API error", r.code, r.body) >>]
         ELSE [status |-> r.status, err |-> Nil]

\* ------------------------------------------------------------- the context
NotFired == [at |-> "", attempts |-> -1, calls |-> -1, intervals |-> -1]

\* the deadline of the context passes
CtxDeadline ==
    /\ ctx = "active"
    /\ pc \notin {"poll_return", "exit"}
    /\ ctx' = "DeadlineExceeded"
    /\ fired' = [at |-> pc, attempts |-> attempts, calls |-> checkCalls,
                 intervals |-> intervals]
    /\ UNCHANGED << pc, attempts, resp, status, err, pollStatus, pollErr, stdout,
                    gwDeviated, checkCalls, lateCalls, waits, intervals >>
    /\ UNCHANGED << runVars, gwVars >>
    /\ UNCHANGED << postResp, nonTerminal, clock, callStart, timerAt >>

\* the owner of the context calls its cancel function
CtxCancel ==
    /\ ctx = "active"
    /\ pc \notin {"poll_return", "exit"}
    /\ ctx' = "Canceled"
    /\ fired' = [at |-> pc, attempts |-> attempts, calls |-> checkCalls,
                 intervals |-> intervals]
    /\ UNCHANGED << pc, attempts, resp, status, err, pollStatus, pollErr, stdout,
                    gwDeviated, checkCalls, lateCalls, waits, intervals >>
    /\ UNCHANGED << runVars, gwVars >>
    /\ UNCHANGED << postResp, nonTerminal, clock, callStart, timerAt >>

\* ---------------------------------------------------- PollTransactionStatus
\* PollTransactionStatus returns (s, e)
PollReturn(s, e) ==
    /\ pc' = "poll_return"
    /\ pollStatus' = s
    /\ pollErr' = e

\* line 283: the function is entered and its attempt counter starts at 0
PollEnter ==
    /\ pc = "poll_enter"
    /\ attempts' = 0
    /\ pc' = "poll_loop"
    /\ UNCHANGED << ctx, resp, status, err, pollStatus, pollErr, stdout,
                    gwDeviated, checkCalls, lateCalls, waits, intervals, fired >>
    /\ UNCHANGED << runVars, gwVars >>
    /\ UNCHANGED << postResp, nonTerminal, clock, callStart, timerAt >>

\* PollLoop returning no error when the budget is used up
PollLoop_NoError ==
    /\ pc = "poll_loop"
    /\ IF attempts < config.MaxPollAttempts
       THEN /\ pc' = "poll_select"
            /\ UNCHANGED << pollStatus, pollErr >>
       ELSE PollReturn("", Nil)
    /\ UNCHANGED << ctx, attempts, resp, status, err, stdout, gwDeviated, checkCalls,
                    lateCalls, waits, intervals, fired >>
    /\ UNCHANGED << runVars, gwVars >>
    /\ UNCHANGED << postResp, nonTerminal, clock, callStart, timerAt >>

\* PollLoop with the bound compared by <= : one iteration too many
PollLoop_OffByOne ==
    /\ pc = "poll_loop"
    /\ IF attempts <= config.MaxPollAttempts
       THEN /\ pc' = "poll_select"
            /\ UNCHANGED << pollStatus, pollErr >>
       ELSE PollReturn("", NewError("transaction timeout after attempts"))
    /\ UNCHANGED << ctx, attempts, resp, status, err, stdout, gwDeviated, checkCalls,
                    lateCalls, waits, intervals, fired >>
    /\ UNCHANGED << runVars, gwVars >>
    /\ UNCHANGED << postResp, nonTerminal, clock, callStart, timerAt >>

\* line 285: the loop condition; line 315 when it fails
PollLoop ==
    /\ pc = "poll_loop"
    /\ IF attempts < config.MaxPollAttempts
       THEN /\ pc' = "poll_select"
            /\ UNCHANGED << pollStatus, pollErr >>
       ELSE PollReturn("", NewError("transaction timeout after attempts"))
    /\ UNCHANGED << ctx, attempts, resp, status, err, stdout, gwDeviated, checkCalls,
                    lateCalls, waits, intervals, fired >>
    /\ UNCHANGED << runVars, gwVars >>
    /\ UNCHANGED << postResp, nonTerminal, clock, callStart, timerAt >>

\* PollSelect without the default branch: the select blocks until the
\* context is done
PollSelect_NoDefault ==
    /\ pc = "poll_select"
    /\ ctx # "active"
    /\ PollReturn("", Wrap("transaction status check cancelled", CtxErr(ctx)))
    /\ UNCHANGED << ctx, attempts, resp, status, err, stdout, gwDeviated, checkCalls,
                    lateCalls, waits, intervals, fired >>
    /\ UNCHANGED << runVars, gwVars >>
    /\ UNCHANGED << postResp, nonTerminal, clock, callStart, timerAt >>

\* lines 286-290: the non-blocking select on ctx.Done()
PollSelect ==
    /\ pc = "poll_select"
    /\ IF ctx # "active"
       THEN PollReturn("", Wrap("transaction status check cancelled", CtxErr(ctx)))
       ELSE /\ pc' = "poll_call"
            /\ UNCHANGED << pollStatus, pollErr >>
    /\ UNCHANGED << ctx, attempts, resp, status, err, stdout, gwDeviated, checkCalls,
                    lateCalls, waits, intervals, fired >>
    /\ UNCHANGED << runVars, gwVars >>
    /\ UNCHANGED << postResp, nonTerminal, clock, callStart, timerAt >>

\* line 292: the call of CheckTransactionStatus starts; the request is sent
\* without the context
PollCall ==
    /\ pc = "poll_call"
    /\ pc' = "poll_inflight"
    /\ checkCalls' = checkCalls + 1
    /\ callStart' = clock
    /\ lateCalls' = IF ctx # "active" THEN lateCalls + 1 ELSE lateCalls
    /\ UNCHANGED << ctx, attempts, resp, status, err, pollStatus, pollErr, stdout,
                    gwDeviated, waits, intervals, fired >>
    /\ UNCHANGED << runVars, gwVars >>
    /\ UNCHANGED << postResp, nonTerminal, clock, timerAt >>

\* TerminalOutcome taking every status but PENDING and SUCCESSFUL for a failure
TerminalOutcome_UnknownFails(s) ==
    CASE s = "SUCCESSFUL" -> "Transaction Successful"
      [] s = "PENDING"    -> ""
      [] OTHER            -> "Transaction Failed"

\* TerminalOutcome with the two messages of the switch exchanged for FAILED
TerminalOutcome_FailedAsSuccessful(s) ==
    CASE s = "SUCCESSFUL" -> "Transaction Successful"
      [] s = "FAILED"     -> "Transaction Successful"
      [] OTHER            -> ""

\* lines 297-302: the message returned for a terminal status (without its
\* leading check mark or cross), "" when the switch falls through
TerminalOutcome(s) ==
    CASE s = "SUCCESSFUL" -> "Transaction Successful"
      [] s = "FAILED"     -> "Transaction Failed"
      [] OTHER            -> ""

ProgressLine(n, max) == [line |-> "Status: PENDING", attempt |-> n, of |-> max]

\* line 292: the gateway answers and CheckTransactionStatus returns
PollCheckReturn ==
    /\ pc = "poll_inflight"
    /\ \E answer \in StatusResponses :
         LET r == CheckTransactionStatus(answer)
         IN  /\ resp' = answer
             /\ status' = r.status
             /\ err' = r.err
             /\ gwDeviated' = (gwDeviated \/ answer # ScriptedResponse(checkCalls))
             /\ nonTerminal' = IF r.err = Nil /\ TerminalOutcome(r.status) = ""
                               THEN nonTerminal + 1
                               ELSE nonTerminal
    /\ pc' = "poll_checked"
    /\ UNCHANGED << ctx, attempts, pollStatus, pollErr, stdout, checkCalls,
                    lateCalls, waits, intervals, fired >>
    /\ UNCHANGED << runVars, gwVars >>
    /\ UNCHANGED << postResp, clock, callStart, timerAt >>

\* PollHandle printing the progress line before the increment
PollHandle_PrintsBeforeIncrement ==
    /\ pc = "poll_checked"
    /\ IF err # Nil
       THEN /\ PollReturn("", Wrap("failed to check status", err))
            /\ UNCHANGED << attempts, stdout, waits >>
       ELSE IF TerminalOutcome(status) # ""
            THEN /\ PollReturn(TerminalOutcome(status), Nil)
                 /\ UNCHANGED << attempts, stdout, waits >>
            ELSE /\ attempts' = attempts + 1
                 /\ stdout' = Append(stdout,
                                     ProgressLine(attempts, config.MaxPollAttempts))
                 /\ waits' = waits + 1
                 /\ pc' = "poll_wait"
                 /\ UNCHANGED << pollStatus, pollErr >>
    /\ timerAt' = IF pc' = "poll_wait" THEN clock + pollInterval ELSE timerAt
    /\ UNCHANGED << ctx, resp, status, err, gwDeviated, checkCalls, lateCalls,
                    intervals, fired >>
    /\ UNCHANGED << runVars, gwVars >>
    /\ UNCHANGED << postResp, nonTerminal, clock, callStart >>

\* PollHandle counting two attempts per non-terminal answer
PollHandle_CountsTwice ==
    /\ pc = "poll_checked"
    /\ IF err # Nil
       THEN /\ PollReturn("", Wrap("failed to check status", err))
            /\ UNCHANGED << attempts, stdout, waits >>
       ELSE IF TerminalOutcome(status) # ""
            THEN /\ PollReturn(TerminalOutcome(status), Nil)
                 /\ UNCHANGED << attempts, stdout, waits >>
            ELSE /\ attempts' = attempts + 2
                 /\ stdout' = Append(stdout,
                                     ProgressLine(attempts + 2, config.MaxPollAttempts))
                 /\ waits' = waits + 1
                 /\ pc' = "poll_wait"
                 /\ UNCHANGED << pollStatus, pollErr >>
    /\ timerAt' = IF pc' = "poll_wait" THEN clock + pollInterval ELSE timerAt
    /\ UNCHANGED << ctx, resp, status, err, gwDeviated, checkCalls, lateCalls,
                    intervals, fired >>
    /\ UNCHANGED << runVars, gwVars >>
    /\ UNCHANGED << postResp, nonTerminal, clock, callStart >>

\* PollHandle taking a failed check for a non-terminal answer and polling on
PollHandle_RetryOnError ==
    /\ pc = "poll_checked"
    /\ IF err = Nil /\ TerminalOutcome(status) # ""
       THEN /\ PollReturn(TerminalOutcome(status), Nil)
            /\ UNCHANGED << attempts, stdout, waits >>
       ELSE /\ attempts' = attempts + 1
            /\ stdout' = Append(stdout,
                                ProgressLine(attempts + 1, config.MaxPollAttempts))
            /\ waits' = waits + 1
            /\ pc' = "poll_wait"
            /\ UNCHANGED << pollStatus, pollErr >>
    /\ timerAt' = IF pc' = "poll_wait" THEN clock + pollInterval ELSE timerAt
    /\ UNCHANGED << ctx, resp, status, err, gwDeviated, checkCalls, lateCalls,
                    intervals, fired >>
    /\ UNCHANGED << runVars, gwVars >>
    /\ UNCHANGED << postResp, nonTerminal, clock, callStart >>

\* lines 293-305: the error check, the switch, the increment and the
\* progress line
PollHandle ==
    /\ pc = "poll_checked"
    /\ IF err # Nil
       THEN /\ PollReturn("", Wrap("failed to check status", err))
            /\ UNCHANGED << attempts, stdout, waits >>
       ELSE IF TerminalOutcome(status) # ""
            THEN /\ PollReturn(TerminalOutcome(status), Nil)
                 /\ UNCHANGED << attempts, stdout, waits >>
            ELSE /\ attempts' = attempts + 1
                 /\ stdout' = Append(stdout,
                                     ProgressLine(attempts + 1, config.MaxPollAttempts))
                 /\ waits' = waits + 1
                 /\ pc' = "poll_wait"
                 /\ UNCHANGED << pollStatus, pollErr >>
    /\ timerAt' = IF pc' = "poll_wait" THEN clock + pollInterval ELSE timerAt
    /\ UNCHANGED << ctx, resp, status, err, gwDeviated, checkCalls, lateCalls,
                    intervals, fired >>
    /\ UNCHANGED << runVars, gwVars >>
    /\ UNCHANGED << postResp, nonTerminal, clock, callStart >>

\* lines 307-309: the wait ends because ctx.Done() is ready
PollWaitDone ==
    /\ pc = "poll_wait"
    /\ ctx # "active"
    /\ PollReturn("", Wrap("transaction timeout", CtxErr(ctx)))
    /\ UNCHANGED << ctx, attempts, resp, status, err, stdout, gwDeviated, checkCalls,
                    lateCalls, waits, intervals, fired >>
    /\ UNCHANGED << runVars, gwVars >>
    /\ UNCHANGED << postResp, nonTerminal, clock, callStart, timerAt >>

\* lines 310-312: the wait ends because the interval timer fired; when both
\* channels are ready the select takes either
PollWaitTimer ==
    /\ pc = "poll_wait"
    /\ pc' = "poll_loop"
    /\ intervals' = intervals + 1
    /\ UNCHANGED << ctx, attempts, resp, status, err, pollStatus, pollErr, stdout,
                    gwDeviated, checkCalls, lateCalls, waits, fired >>
    /\ UNCHANGED << runVars, gwVars >>
    /\ UNCHANGED << postResp, nonTerminal, clock, callStart, timerAt >>

PollTransactionStatus ==
    \/ PollEnter
    \/ PollLoop
    \/ PollSelect
    \/ PollCall
    \/ PollCheckReturn
    \/ PollHandle
    \/ PollWaitDone
    \/ PollWaitTimer

\* ---------------------------------------------------------------------- run
pollVars == << ctx, attempts, resp, status, err, pollStatus, pollErr, gwDeviated,
               checkCalls, lateCalls, waits, intervals, fired >>

\* run returns e and main turns it into the exit code (lines 58-63)
RunReturn(e) ==
    /\ pc' = "exit"
    /\ runErr' = e
    /\ exitCode' = IF e # Nil THEN 1 ELSE 0

\* the error of godotenv.Load on a .env file it cannot read or parse
DotenvError == NewError("godotenv error")

\* lines 67-70 and loadConfig, lines 117-141
RunLoadConfig ==
    /\ pc = "run_loadConfig"
    /\ IF env.dotenv = "bad"
       THEN /\ RunReturn(Wrap("failed to load configuration",
                              Wrap("failed to load .env", DotenvError)))
            /\ UNCHANGED config
       ELSE IF env.API_KEY = ""
            THEN /\ RunReturn(Wrap("failed to load configuration",
                        NewError("API_KEY environment variable is required")))
                 /\ UNCHANGED config
            ELSE /\ config' = [APIKey |-> env.API_KEY,
                               MaxPollAttempts |-> maxPollAttempts]
                 /\ pc' = "run_getUserInput"
                 /\ UNCHANGED << runErr, exitCode >>
    /\ UNCHANGED << env, stdin, paymentReq, reference, initCalls, stdout >>
    /\ UNCHANGED << pollVars, gwVars >>
    /\ UNCHANGED << postResp, nonTerminal, clock, callStart, timerAt >>

\* lines 76-79 and getUserInput, lines 159-188
RunGetUserInput ==
    /\ pc = "run_getUserInput"
    /\ LET momoNumber == ReadString(stdin.From)
           amount == ReadString(stdin.Amount)
           description == ReadString(stdin.Description)
           failed(msg, e) == RunReturn(Wrap("failed to get user input", Wrap(msg, e)))
       IN  IF momoNumber.err # Nil
           THEN /\ failed("failed to read mobile number", momoNumber.err)
                /\ UNCHANGED paymentReq
           ELSE IF amount.err # Nil
           THEN /\ failed("failed to read amount", amount.err)
                /\ UNCHANGED paymentReq
           ELSE IF description.err # Nil
           THEN /\ failed("failed to read description", description.err)
                /\ UNCHANGED paymentReq
           ELSE /\ paymentReq' = [From |-> TrimSpace(momoNumber.s),
                                  Amount |-> TrimSpace(amount.s),
                                  Description |-> TrimSpace(description.s)]
                /\ pc' = "run_validate"
                /\ UNCHANGED << runErr, exitCode >>
    /\ UNCHANGED << env, stdin, config, reference, initCalls, stdout >>
    /\ UNCHANGED << pollVars, gwVars >>
    /\ UNCHANGED << postResp, nonTerminal, clock, callStart, timerAt >>

\* RunValidate going on to the initiation whatever the validator said
RunValidate_IgnoresError ==
    /\ pc = "run_validate"
    /\ pc' = "run_initiate"
    /\ UNCHANGED << runErr, exitCode >>
    /\ UNCHANGED << env, stdin, config, paymentReq, reference, initCalls, stdout >>
    /\ UNCHANGED << pollVars, gwVars >>
    /\ UNCHANGED << postResp, nonTerminal, clock, callStart, timerAt >>

\* lines 82-84
RunValidate ==
    /\ pc = "run_validate"
    /\ IF validatePaymentRequest(paymentReq) # Nil
       THEN RunReturn(Wrap("validation error", validatePaymentRequest(paymentReq)))
       ELSE /\ pc' = "run_initiate"
            /\ UNCHANGED << runErr, exitCode >>
    /\ UNCHANGED << env, stdin, config, paymentReq, reference, initCalls, stdout >>
    /\ UNCHANGED << pollVars, gwVars >>
    /\ UNCHANGED << postResp, nonTerminal, clock, callStart, timerAt >>

\* lines 92-95: the one call of InitiatePayment
RunInitiate ==
    /\ pc = "run_initiate"
    /\ initCalls' = initCalls + 1
    /\ \E answer \in InitResponses :
         LET r == InitiatePayment(answer)
         IN  /\ postResp' = answer
             /\ IF r.err # Nil
                THEN /\ RunReturn(Wrap("failed to initiate payment", r.err))
                     /\ UNCHANGED reference
                ELSE /\ reference' = r.reference
                     /\ pc' = "run_withTimeout"
                     /\ UNCHANGED << runErr, exitCode >>
    /\ UNCHANGED << env, stdin, config, paymentReq, stdout >>
    /\ UNCHANGED << pollVars, gwVars >>
    /\ UNCHANGED << nonTerminal, clock, callStart, timerAt >>

\* lines 101-105: the context with the deadline, and the call of the poller
RunWithTimeout ==
    /\ pc = "run_withTimeout"
    /\ ctx' = "active"
    /\ pc' = "poll_enter"
    /\ UNCHANGED << attempts, resp, status, err, pollStatus, pollErr, gwDeviated,
                    checkCalls, lateCalls, waits, intervals, fired, stdout >>
    /\ UNCHANGED << runVars, gwVars >>
    /\ UNCHANGED << postResp, nonTerminal, clock, callStart, timerAt >>

FinalStatus(s) == [line |-> s, attempt |-> 0, of |-> 0]

\* RunAfterPoll turning a FAILED transaction into an error of the run
RunAfterPoll_FailedIsError ==
    /\ pc = "poll_return"
    /\ IF pollErr # Nil
       THEN /\ RunReturn(Wrap("failed to get transaction status", pollErr))
            /\ UNCHANGED stdout
       ELSE /\ stdout' = Append(stdout, FinalStatus(pollStatus))
            /\ IF pollStatus = "Transaction Failed"
               THEN RunReturn(NewError("transaction failed"))
               ELSE RunReturn(Nil)
    /\ ctx' = IF ctx = "active" THEN "Canceled" ELSE ctx
    /\ UNCHANGED << env, stdin, config, paymentReq, reference, initCalls >>
    /\ UNCHANGED << attempts, resp, status, err, pollStatus, pollErr, gwDeviated,
                    checkCalls, lateCalls, waits, intervals, fired >>
    /\ UNCHANGED gwVars
    /\ UNCHANGED << postResp, nonTerminal, clock, callStart, timerAt >>

\* RunAfterPoll submitting the payment once more after a failed poll
RunAfterPoll_Resubmits ==
    /\ pc = "poll_return"
    /\ IF pollErr # Nil /\ initCalls < 2
       THEN /\ pc' = "run_initiate"
            /\ UNCHANGED << runErr, exitCode, stdout >>
       ELSE IF pollErr # Nil
            THEN /\ RunReturn(Wrap("failed to get transaction status", pollErr))
                 /\ UNCHANGED stdout
            ELSE /\ stdout' = Append(stdout, FinalStatus(pollStatus))
                 /\ RunReturn(Nil)
    /\ ctx' = IF ctx = "active" THEN "Canceled" ELSE ctx
    /\ UNCHANGED << env, stdin, config, paymentReq, reference, initCalls >>
    /\ UNCHANGED << attempts, resp, status, err, pollStatus, pollErr, gwDeviated,
                    checkCalls, lateCalls, waits, intervals, fired >>
    /\ UNCHANGED gwVars
    /\ UNCHANGED << postResp, nonTerminal, clock, callStart, timerAt >>

\* lines 105-113: the result of the poll is reported or turned into an
\* error; the deferred cancel of line 103 runs as run returns
RunAfterPoll ==
    /\ pc = "poll_return"
    /\ IF pollErr # Nil
       THEN /\ RunReturn(Wrap("failed to get transaction status", pollErr))
            /\ UNCHANGED stdout
       ELSE /\ stdout' = Append(stdout, FinalStatus(pollStatus))
            /\ RunReturn(Nil)
    /\ ctx' = IF ctx = "active" THEN "Canceled" ELSE ctx
    /\ UNCHANGED << env, stdin, config, paymentReq, reference, initCalls >>
    /\ UNCHANGED << attempts, resp, status, err, pollStatus, pollErr, gwDeviated,
                    checkCalls, lateCalls, waits, intervals, fired >>
    /\ UNCHANGED gwVars
    /\ UNCHANGED << postResp, nonTerminal, clock, callStart, timerAt >>

run ==
    \/ RunLoadConfig
    \/ RunGetUserInput
    \/ RunValidate
    \/ RunInitiate
    \/ RunWithTimeout
    \/ RunAfterPoll

\* ----------------------------------------------------------- specifications
PollInit ==
    /\ attempts = 0
    /\ resp = NoResponse
    /\ status = ""
    /\ err = Nil
    /\ pollStatus = ""
    /\ pollErr = Nil
    /\ stdout = << >>
    /\ gwDeviated = FALSE
    /\ checkCalls = 0
    /\ lateCalls = 0
    /\ waits = 0
    /\ intervals = 0
    /\ fired = NotFired
    /\ nonTerminal = 0
    /\ clock = 0
    /\ callStart = 0
    /\ timerAt = 0

\* the process starts: main calls run; the transaction leaves PENDING at the
\* first check, or never, and any check may be answered off that script
Init ==
    /\ pc = "run_loadConfig"
    /\ env \in EnvSamples
    /\ stdin \in StdinSamples
    /\ config = NoConfig
    /\ paymentReq = NoRequest
    /\ reference = ""
    /\ ctx = "none"
    /\ runErr = Nil
    /\ exitCode = -1
    /\ initCalls = 0
    /\ postResp = NoInitResponse
    /\ gwK = 0
    /\ gwFinal \in {"PENDING", "SUCCESSFUL", "FAILED"}
    /\ PollInit

Next ==
    \/ run
    \/ PollTransactionStatus
    \/ CtxDeadline

Spec == Init /\ [][Next]_vars

\* a caller holding a client with an attempt budget of 1..MaxN and a live
\* context, which has a deadline and which its owner may cancel, calls
\* PollTransactionStatus
InitPoller ==
    /\ pc = "poll_enter"
    /\ env = [API_KEY |-> "key", dotenv |-> "absent"]
    /\ stdin = NoInput
    /\ config \in [APIKey : {"key"}, MaxPollAttempts : 1..MaxN]
    /\ paymentReq = NoRequest
    /\ reference = "abc123"
    /\ ctx = "active"
    /\ runErr = Nil
    /\ exitCode = -1
    /\ initCalls = 0
    /\ postResp = NoInitResponse
    /\ gwK \in 0..MaxK
    /\ gwFinal \in {"PENDING", "SUCCESSFUL", "FAILED"}
    /\ PollInit

NextPoller ==
    \/ PollTransactionStatus
    \/ CtxDeadline
    \/ CtxCancel

SpecPoller == InitPoller /\ [][NextPoller]_vars

\* lines 76-85 on their own: the configuration is loaded and the user
\* enters any string of PhoneInputs with a valid amount and description
InitValidate ==
    /\ pc = "run_getUserInput"
    /\ env = [API_KEY |-> "key", dotenv |-> "absent"]
    /\ stdin \in [From : { Entered(p) : p \in PhoneInputs }, Amount : {Valid_Amount},
                   Description : {Valid_Description}]
    /\ paymentReq = NoRequest
    /\ config = [APIKey |-> "key", MaxPollAttempts |-> maxPollAttempts]
    /\ reference = ""
    /\ ctx = "none"
    /\ runErr = Nil
    /\ exitCode = -1
    /\ initCalls = 0
    /\ postResp = NoInitResponse
    /\ gwK = 0
    /\ gwFinal = "SUCCESSFUL"
    /\ PollInit

NextValidate ==
    \/ RunGetUserInput
    \/ RunValidate

SpecValidate == InitValidate /\ [][NextValidate]_vars

\* the goroutine of the poller keeps running: a step of PollTransactionStatus
\* that stays possible is taken, so a check in flight returns and the select
\* of the wait takes a channel that is ready
SpecPollerLive == SpecPoller /\ WF_vars(PollTransactionStatus)

\* ------------------------------------------------------------ real time
\* lines 101-102: the deadline of the context run creates, in seconds after
\* its creation
DeadlineAt == config.MaxPollAttempts * pollInterval

\* one second passes while the goroutine is blocked in a status check or in
\* the wait; the deadline fires when its time has come, a check lasts at
\* most MaxLatency, and the select of the wait does not sleep past a ready
\* channel
Tick ==
    /\ pc \in {"poll_inflight", "poll_wait"}
    /\ ctx = "active" => clock < DeadlineAt
    /\ pc = "poll_inflight" => clock - callStart < MaxLatency
    /\ pc = "poll_wait" => (ctx = "active" /\ clock < timerAt)
    /\ clock' = clock + 1
    /\ UNCHANGED << pc, ctx, attempts, resp, status, err, pollStatus, pollErr,
                    stdout, gwDeviated, checkCalls, lateCalls, waits, intervals,
                    fired, postResp, nonTerminal, callStart, timerAt >>
    /\ UNCHANGED << runVars, gwVars >>

\* the deadline fires at its time
TimedDeadline == clock >= DeadlineAt /\ CtxDeadline

\* the timer of the wait fires at its time
TimedWaitTimer == clock >= timerAt /\ PollWaitTimer

\* PollTransactionStatus called as run calls it, under a context created
\* with the deadline MaxPollAttempts x pollInterval, in real time
NextTimed ==
    \/ PollEnter
    \/ PollLoop
    \/ PollSelect
    \/ PollCall
    \/ PollCheckReturn
    \/ PollHandle
    \/ PollWaitDone
    \/ TimedWaitTimer
    \/ TimedDeadline
    \/ Tick

SpecTimed == InitPoller /\ [][NextTimed]_vars

\* ------------------------------------------------------------------- claims
\* the kind of failure PollTransactionStatus reports, read from the message
\* of the error it returns
FailureKind(e) ==
    IF e = Nil THEN "none"
    ELSE CASE e[1].msg = "transaction status check cancelled"  -> "Cancelled"
           [] e[1].msg = "transaction timeout"                 -> "Timeout"
           [] e[1].msg = "transaction timeout after attempts"  -> "Timeout"
           [] OTHER                                            -> "Gateway"

\* C1: whatever the gateway answers and whenever the context fires, the
\* number of CheckTransactionStatus calls started never exceeds
\* Config.MaxPollAttempts.
C1_CallsAtMostMax == checkCalls <= config.MaxPollAttempts

\* the whole budget of at least two calls was used and the context fired on
\* the way
C1_Witness ==
    /\ pc = "poll_return"
    /\ config.MaxPollAttempts >= 2
    /\ checkCalls = config.MaxPollAttempts
    /\ ctx # "active"

\* C2: when a check returned SUCCESSFUL or FAILED without error, the next
\* step of the poller returns the matching outcome with a nil error, starts
\* no call and enters no wait; and after the return no call and no wait
\* happens.
C2_StopsOnTerminal ==
    [][ /\ ( /\ pc = "poll_checked"
             /\ err = Nil
             /\ status \in {"SUCCESSFUL", "FAILED"}
             /\ pc' # pc )
           => /\ pc' = "poll_return"
              /\ pollErr' = Nil
              /\ pollStatus' = ( IF status = "SUCCESSFUL"
                                 THEN "Transaction Successful"
                                 ELSE "Transaction Failed" )
              /\ checkCalls' = checkCalls
              /\ waits' = waits
              /\ attempts' = attempts
        /\ pc = "poll_return"
           => /\ checkCalls' = checkCalls
              /\ waits' = waits
              /\ pollStatus' = pollStatus
              /\ pollErr' = pollErr ]_vars

\* FAILED came after a PENDING answer and the poll returned it
C2_Witness ==
    /\ pc = "poll_return"
    /\ status = "FAILED"
    /\ pollStatus = "Transaction Failed"
    /\ pollErr = Nil
    /\ checkCalls = 2
    /\ waits = 1

\* the gateway followed its script: PENDING for the first gwK checks, then
\* final, always with a 2xx code
Stub(final) == gwFinal = final /\ ~gwDeviated

\* the context was live when the n-th call started: it never fired, or
\* fired after n calls had been started
LiveUntilCall(n) == ctx = "active" \/ fired.calls >= n

\* the error carries the expiry of the deadline
WrapsDeadline(e) == Len(e) = 2 /\ e[2] = CtxErr("DeadlineExceeded")[1]

\* C3 as stated, in the case most favourable to it (the context never
\* fires): for every k, against a gateway answering PENDING k times and then
\* SUCCESSFUL, the poll ends with exactly k+1 calls and the successful
\* outcome.
C3_Original ==
    (pc = "poll_return" /\ Stub("SUCCESSFUL") /\ ctx = "active")
        => /\ checkCalls = gwK + 1
           /\ pollStatus = "Transaction Successful"
           /\ pollErr = Nil

\* C3 amended: for every k with 0 <= k < MaxPollAttempts, against a gateway
\* answering PENDING k times and then SUCCESSFUL, and with a context that is
\* not done before the (k+1)-th call has started, the poll ends with exactly
\* k+1 calls and the successful outcome; for k >= MaxPollAttempts and a
\* context that never fires it ends after MaxPollAttempts calls with the
\* attempts-exhausted timeout error.
C3_PendingThenSuccessful ==
    /\ ( /\ pc = "poll_return"
         /\ Stub("SUCCESSFUL")
         /\ gwK < config.MaxPollAttempts
         /\ LiveUntilCall(gwK + 1) )
           => /\ checkCalls = gwK + 1
              /\ attempts = gwK
              /\ pollStatus = "Transaction Successful"
              /\ pollErr = Nil
    /\ ( /\ pc = "poll_return"
         /\ Stub("SUCCESSFUL")
         /\ gwK >= config.MaxPollAttempts
         /\ ctx = "active" )
           => /\ checkCalls = config.MaxPollAttempts
              /\ pollStatus = ""
              /\ pollErr = NewError("transaction timeout after attempts")

\* two PENDING answers, then SUCCESSFUL on the third and last allowed call
C3_Witness ==
    /\ pc = "poll_return"
    /\ Stub("SUCCESSFUL")
    /\ ctx = "active"
    /\ gwK = 2
    /\ config.MaxPollAttempts = 3
    /\ checkCalls = 3
    /\ pollStatus = "Transaction Successful"

\* C4 as stated, for contexts that nobody cancels and counting every error
\* that says timeout or carries the deadline's expiry as a Timeout: against
\* a gateway that always answers PENDING, with a budget N >= 1, the poll
\* ends with exactly N calls and a Timeout error.
C4_Original ==
    ( /\ pc = "poll_return"
      /\ Stub("PENDING")
      /\ config.MaxPollAttempts >= 1
      /\ ctx # "Canceled" )
        => /\ checkCalls = config.MaxPollAttempts
           /\ (FailureKind(pollErr) = "Timeout" \/ WrapsDeadline(pollErr))

\* C4 amended: against a gateway that always answers PENDING, with a budget
\* N >= 1 and a context that nobody cancels, the poll ends as follows.
\* When the deadline does not pass before the N-th call has started: exactly
\* N calls, N attempts counted, and a timeout error, the attempts-exhausted
\* one or the one of the wait carrying the deadline's expiry.  When the
\* deadline passes earlier, after c < N calls have started: no further call
\* starts, except the one whose pre-check (lines 286-290) had already taken
\* the default branch, so the poll ends with c calls, or c + 1 <= N in that
\* case, one attempt counted per call, and an error carrying the deadline's
\* expiry from the pre-check or the wait; the attempts-exhausted error is
\* possible only after all N calls.
C4_AlwaysPending ==
    /\ ( /\ pc = "poll_return"
         /\ Stub("PENDING")
         /\ config.MaxPollAttempts >= 1
         /\ ctx # "Canceled"
         /\ LiveUntilCall(config.MaxPollAttempts) )
           => /\ checkCalls = config.MaxPollAttempts
              /\ attempts = config.MaxPollAttempts
              /\ pollStatus = ""
              /\ \/ pollErr = NewError("transaction timeout after attempts")
                 \/ pollErr = Wrap("transaction timeout", CtxErr("DeadlineExceeded"))
    /\ ( /\ pc = "poll_return"
         /\ Stub("PENDING")
         /\ config.MaxPollAttempts >= 1
         /\ ctx = "DeadlineExceeded"
         /\ fired.calls < config.MaxPollAttempts )
           => /\ checkCalls = fired.calls + (IF fired.at = "poll_call" THEN 1 ELSE 0)
              /\ checkCalls <= config.MaxPollAttempts
              /\ attempts = checkCalls
              /\ pollStatus = ""
              /\ \/ pollErr = Wrap("transaction timeout", CtxErr("DeadlineExceeded"))
                 \/ pollErr = Wrap("transaction status check cancelled",
                                   CtxErr("DeadlineExceeded"))
                 \/ /\ pollErr = NewError("transaction timeout after attempts")
                    /\ checkCalls = config.MaxPollAttempts

\* three PENDING answers with a budget of three, the context still live
C4_Witness ==
    /\ pc = "poll_return"
    /\ Stub("PENDING")
    /\ ctx = "active"
    /\ config.MaxPollAttempts = 3
    /\ checkCalls = 3
    /\ pollErr = NewError("transaction timeout after attempts")

\* C5 as stated: no CheckTransactionStatus call starts once the context is
\* done, in any interleaving of the firing with the loop.
C5_NoCallAfterDone == [][ctx # "active" => checkCalls' = checkCalls]_vars

\* C6 as stated, for a cancellation that fires while no status check is
\* underway (before the pre-check or during the wait): when the owner
\* cancels the context before any interval has elapsed, the poll returns the
\* Cancelled error and the attempt counter is still what it was when the
\* cancellation fired.
C6_CancelBeforeInterval ==
    ( /\ pc = "poll_return"
      /\ ctx = "Canceled"
      /\ fired.intervals = 0
      /\ fired.at \in {"poll_enter", "poll_loop", "poll_select", "poll_wait"} )
        => /\ FailureKind(pollErr) = "Cancelled"
           /\ attempts = fired.attempts

\* C7 as stated: the failure kind matches the cause, at either check: an
\* error that carries the deadline's expiry is a Timeout, never Cancelled;
\* one that carries the owner's cancellation is Cancelled, never Timeout;
\* and exhausting the attempt budget is a Timeout.
C7_KindMatchesCause ==
    (pc = "poll_return" /\ pollErr # Nil /\ FailureKind(pollErr) # "Gateway")
        => /\ Len(pollErr) = 2 /\ pollErr[2] = CtxErr("DeadlineExceeded")[1]
              => FailureKind(pollErr) = "Timeout"
           /\ Len(pollErr) = 2 /\ pollErr[2] = CtxErr("Canceled")[1]
              => FailureKind(pollErr) = "Cancelled"
           /\ Len(pollErr) = 1 => FailureKind(pollErr) = "Timeout"

\* C8: when CheckTransactionStatus got a transport failure or a status code
\* outside 200-299 it returns an error, and the next step of the poller
\* returns that error wrapped, with the attempt counter, the progress
\* output, the waits and the calls unchanged; nothing happens after the
\* return.
C8_CheckErrorFatal ==
    /\ [] ( (pc = "poll_checked" /\ (resp.neterr \/ resp.code < 200 \/ resp.code > 299))
              => err # Nil )
    /\ [][ /\ (pc = "poll_checked" /\ err # Nil /\ pc' # pc)
              => /\ pc' = "poll_return"
                 /\ pollStatus' = ""
                 /\ pollErr' = Wrap("failed to check status", err)
                 /\ attempts' = attempts
                 /\ stdout' = stdout
                 /\ waits' = waits
                 /\ checkCalls' = checkCalls
           /\ (pc = "poll_return" /\ FailureKind(pollErr) = "Gateway")
              => /\ checkCalls' = checkCalls
                 /\ waits' = waits
                 /\ attempts' = attempts ]_vars

\* a 400 answer after two PENDING answers ended the poll
C8_Witness ==
    /\ pc = "poll_return"
    /\ resp.code = 400
    /\ attempts = 2
    /\ checkCalls = 3
    /\ waits = 2
    /\ pollErr = Wrap("failed to check status", << Layer("API error", 400, "{}") >>)

Stage(p) ==
    CASE p = "run_loadConfig"   -> 1
      [] p = "run_getUserInput" -> 2
      [] p = "run_validate"     -> 3
      [] p = "run_initiate"     -> 4
      [] p = "run_withTimeout"  -> 5
      [] p = "poll_return"      -> 7
      [] p = "exit"             -> 8
      [] OTHER                  -> 6

\* the three lines of the input are complete
ReadsAll ==
    /\ ReadString(stdin.From).err = Nil
    /\ ReadString(stdin.Amount).err = Nil
    /\ ReadString(stdin.Description).err = Nil

FinalReported ==
    \E i \in 1..Len(stdout) : stdout[i].attempt = 0

\* C9: the stages run in the order load, read, validate, initiate, poll,
\* report and a failure ends the run: InitiatePayment is called only with a
\* loaded configuration and a read, valid request; the poll runs only after
\* one InitiatePayment call that gave a non-empty reference; the final
\* status is printed only after a poll that returned no error; a run that
\* ended in a configuration, input or validation error made no call to the
\* gateway.
C9_StagesInOrder ==
    /\ [] ( /\ initCalls > 0
               => /\ config # NoConfig
                  /\ ReadsAll
                  /\ validatePaymentRequest(paymentReq) = Nil
            /\ (Stage(pc) \in {6, 7} \/ checkCalls > 0 \/ ctx # "none")
               => (initCalls = 1 /\ reference # "")
            /\ FinalReported
               => (pc = "exit" /\ pollErr = Nil /\ runErr = Nil /\ checkCalls > 0)
            /\ ( /\ pc = "exit"
                 /\ \/ config = NoConfig
                    \/ ~ReadsAll
                    \/ validatePaymentRequest(paymentReq) # Nil )
               => (runErr # Nil /\ initCalls = 0 /\ checkCalls = 0) )
    /\ [][ /\ Stage(pc') >= Stage(pc)
           /\ Stage(pc') \in {Stage(pc), Stage(pc) + 1, 8}
           /\ (Stage(pc') = 8 /\ Stage(pc) < 7) => runErr' # Nil ]_vars

\* a request with a bad phone number ended the run before any call
C9_Witness ==
    /\ pc = "exit"
    /\ config # NoConfig
    /\ ReadsAll
    /\ validatePhoneNumber(paymentReq.From) # Nil
    /\ runErr = Wrap("validation error", validatePhoneNumber(paymentReq.From))
    /\ initCalls = 0

\* C10: InitiatePayment is called at most once in a run; a stage that
\* failed is followed by the end of the run, with no further
\* InitiatePayment or CheckTransactionStatus call; nothing happens after
\* the end.
C10_InitiateAtMostOnce ==
    /\ [] (initCalls <= 1)
    /\ [][ /\ pc # "exit"
           /\ runErr' # Nil => pc' = "exit"
           /\ (pc = "poll_return" /\ pollErr # Nil)
              => /\ pc' = "exit"
                 /\ runErr' # Nil
                 /\ initCalls' = initCalls
                 /\ checkCalls' = checkCalls
           /\ (pc = "run_initiate" /\ reference' = "")
              => (pc' = "exit" /\ runErr' # Nil /\ initCalls' = 1) ]_vars

\* the poll failed after the one initiation and the run ended
C10_Witness ==
    /\ pc = "exit"
    /\ initCalls = 1
    /\ pollErr # Nil
    /\ runErr = Wrap("failed to get transaction status", pollErr)
    /\ exitCode = 1

\* C11: the run ends with exit code 0 or 1; it is 0 exactly when the final
\* status was printed, which happens for the successful and for the failed
\* outcome alike, and 1 exactly when run returned an error, whatever the
\* stage that failed.
C11_ExitCode ==
    /\ pc # "exit" => exitCode = -1
    /\ pc = "exit"
       => /\ exitCode \in {0, 1}
          /\ exitCode = 0 <=> FinalReported
          /\ exitCode = 1 <=> runErr # Nil
          /\ FinalReported
             => /\ pollErr = Nil
                /\ pollStatus \in {"Transaction Successful", "Transaction Failed"}
                /\ stdout[Len(stdout)] = FinalStatus(pollStatus)
          /\ ~FinalReported
             => runErr[1].msg \in { "failed to load configuration",
                                    "failed to get user input",
                                    "validation error",
                                    "failed to initiate payment",
                                    "failed to get transaction status" }

\* a FAILED transaction was reported and the process exited with 0
C11_Witness ==
    /\ pc = "exit"
    /\ exitCode = 0
    /\ status = "FAILED"
    /\ pollStatus = "Transaction Failed"
    /\ FinalReported

\* C12: when the response to the POST has no reference, even with a 2xx
\* code, InitiatePayment gives an error and the empty reference: the run ends
\* there with the initiation error and no status check; and whenever the
\* poll has been started the reference is not empty.
C12_ReferenceRequired ==
    /\ (initCalls > 0 /\ postResp.Reference = "")
       => /\ pc = "exit"
          /\ reference = ""
          /\ Len(runErr) >= 2
          /\ runErr[1].msg = "failed to initiate payment"
          /\ ctx = "none"
          /\ checkCalls = 0
    /\ (ctx # "none" \/ checkCalls > 0) => reference # ""

\* a 200 answer without reference ended the run
C12_Witness ==
    /\ pc = "exit"
    /\ initCalls = 1
    /\ ~postResp.neterr
    /\ postResp.code = 200
    /\ postResp.Reference = ""
    /\ runErr = Wrap("failed to initiate payment",
                     << Layer("no reference returned", 0, "") >>)

\* the message field of a raw response body
BodyMessage(body) == IF body = MessageBody THEN "invalid credentials" ELSE ""

\* C13 as stated: a response with a code outside 200-299 gives, from
\* InitiatePayment and from CheckTransactionStatus alike, an error that
\* carries the code and the message field of the body; on the initiation the
\* run ends with that error and exit code 1.
C13_ErrorCarriesCodeAndMessage ==
    /\ ( /\ initCalls > 0
         /\ ~postResp.neterr
         /\ (postResp.code < 200 \/ postResp.code > 299) )
       => /\ pc = "exit"
          /\ exitCode = 1
          /\ Len(runErr) = 2
          /\ runErr[2].code = postResp.code
          /\ runErr[2].text = postResp.Message
    /\ ( /\ pc = "poll_checked"
         /\ ~resp.neterr
         /\ (resp.code < 200 \/ resp.code > 299) )
       => /\ Len(err) = 1
          /\ err[1].code = resp.code
          /\ BodyMessage(err[1].text) = BodyMessage(resp.body)

\* C14 as stated: the poll returns no later than MaxPollAttempts x
\* pollInterval after the creation of the context, however long the gateway
\* takes to answer a check.
C14_DurationBounded ==
    pc = "poll_return" => clock <= config.MaxPollAttempts * pollInterval

\* the number of characters of a string: every byte but the continuation
\* bytes of UTF-8
\* the bytes 80..BF
ContinuationBytes ==
    { "80", "81", "82", "83", "84", "85", "86", "87",
      "88", "89", "8A", "8B", "8C", "8D", "8E", "8F",
      "90", "91", "92", "93", "94", "95", "96", "97",
      "98", "99", "9A", "9B", "9C", "9D", "9E", "9F",
      "A0", "A1", "A2", "A3", "A4", "A5", "A6", "A7",
      "A8", "A9", "AA", "AB", "AC", "AD", "AE", "AF",
      "B0", "B1", "B2", "B3", "B4", "B5", "B6", "B7",
      "B8", "B9", "BA", "BB", "BC", "BD", "BE", "BF" }

RuneCount(s) == Cardinality({ i \in 1..Len(s) : s[i] \notin ContinuationBytes })

Normalized(phone) == ReplaceAll(ReplaceAll(ReplaceAll(phone, " "), "-"), "+")

StartsRight(p) == HasPrefix(p, <<"2", "3", "7">>) \/ HasPrefix(p, <<"6">>)

\* C15 as stated: once the request has been validated, its phone was rejected
\* if it is empty, if its normalized form has fewer than 9 characters or if
\* the normalized form starts with neither 237 nor 6; it was accepted if the
\* normalized form has at least 9 characters and starts with 237 or 6.
C15_PhoneRule ==
    pc \in {"run_initiate", "exit"} =>
        LET p == Normalized(paymentReq.From)
            rejected == validatePhoneNumber(paymentReq.From) # Nil
        IN  /\ rejected <=> (pc = "exit" /\ runErr # Nil)
            /\ ( \/ paymentReq.From = << >>
                 \/ RuneCount(p) < minPhoneLength
                 \/ ~StartsRight(p) ) => rejected
            /\ (RuneCount(p) >= minPhoneLength /\ StartsRight(p)) => ~rejected

\* C16 as stated: the poller is in the inter-attempt wait only with the
\* attempt counter below MaxPollAttempts; the PENDING answer that brings the
\* counter to MaxPollAttempts ends the poll without a wait.
C16_NoWaitAtBudget == pc = "poll_wait" => attempts < config.MaxPollAttempts

\* a status check has returned a non-terminal answer that the loop has not
\* counted yet
AnswerInHand == pc = "poll_checked" /\ err = Nil /\ TerminalOutcome(status) = ""

\* C17: the attempt counter stays within 0..MaxPollAttempts; it equals the
\* number of non-terminal answers received, the one the loop has in hand
\* being counted when it is handled; it equals the number of progress lines,
\* which carry the numbers 1, 2, ... in order; a terminal answer or a failed
\* check changes neither the counter nor the output.
C17_AttemptCounter ==
    /\ [] ( /\ attempts \in 0..config.MaxPollAttempts
            /\ nonTerminal = attempts + (IF AnswerInHand THEN 1 ELSE 0)
            /\ Len(stdout) = attempts
            /\ \A i \in 1..Len(stdout) :
                 stdout[i] = ProgressLine(i, config.MaxPollAttempts) )
    /\ [][ (pc = "poll_checked" /\ ~AnswerInHand)
              => (attempts' = attempts /\ stdout' = stdout) ]_vars

\* two non-terminal answers, two attempts, two progress lines, then a failed
\* check
C17_Witness ==
    /\ pc = "poll_return"
    /\ config.MaxPollAttempts = 3
    /\ attempts = 2
    /\ nonTerminal = 2
    /\ Len(stdout) = 2
    /\ checkCalls = 3
    /\ resp.neterr

\* C18: a check that returned, without error, a status other than SUCCESSFUL
\* and FAILED costs one attempt, prints one PENDING progress line and leads
\* to the wait, with nothing returned; and a returned outcome always comes
\* from a SUCCESSFUL or FAILED status.
C18_NonTerminalStatus ==
    /\ [][ ( /\ pc = "poll_checked"
             /\ err = Nil
             /\ status \notin {"SUCCESSFUL", "FAILED"}
             /\ pc' # pc )
              => /\ pc' = "poll_wait"
                 /\ attempts' = attempts + 1
                 /\ stdout' = Append(stdout, [line |-> "Status: PENDING",
                                              attempt |-> attempts + 1,
                                              of |-> config.MaxPollAttempts])
                 /\ pollStatus' = ""
                 /\ pollErr' = Nil ]_vars
    /\ [] ( (pc = "poll_return" /\ pollErr = Nil)
              => status \in {"SUCCESSFUL", "FAILED"} )

\* an unrecognized status and then an empty one were counted as attempts
C18_Witness ==
    /\ pc = "poll_wait"
    /\ status = ""
    /\ attempts = 2
    /\ nonTerminal = 2
    /\ gwDeviated
    /\ gwK = 0
    /\ gwFinal = "SUCCESSFUL"
    /\ pollErr = Nil

\* C19: when the goroutine keeps running, every poll returns, with an
\* outcome or with an error.
C19_Terminates ==
    <>( /\ pc = "poll_return"
        /\ \/ pollErr # Nil
           \/ pollStatus \in {"Transaction Successful", "Transaction Failed"} )

\* the gateway never left PENDING, nothing fired, and the poll returned
\* after the whole budget with its last wait ended by the timer
C19_Witness ==
    /\ pc = "poll_return"
    /\ gwFinal = "PENDING"
    /\ ctx = "active"
    /\ attempts = config.MaxPollAttempts
    /\ intervals = config.MaxPollAttempts
    /\ config.MaxPollAttempts = MaxN
    /\ pollErr # Nil

=============================================================================
